---- MODULE Spec2Model ----
(***************************************************************************)
(* Model of the lca-prommis glue code: exchange construction for the rows  *)
(* of a flow table (create_new_process and the exchange builders), the     *)
(* parameter-set functions of run_analysis.py, initiate_lca_model and the  *)
(* openLCA node script.                                                    *)
(***************************************************************************)
EXTENDS Integers, Sequences, FiniteSets, TLC

VARIABLES
    pc,                \* position of create_new_process / initiate_lca_model
    nrows,             \* number of rows of the data frame
    count,             \* create_new_process: count (1-based row position)
    row,               \* the row the loop is at
    retries,           \* number of 'try again' prompts answered so far
    exchanges,         \* create_new_process: exchanges
    parameters,        \* create_new_process: parameters
    parameters_table,  \* create_new_process: parameters_table
    last,              \* what the last attempt on the current row did
    saved,             \* the process stored by client.client.put(process)
    raised,            \* the exception that reached the caller
    ops,               \* remote operations issued, in order
    bIn,               \* arguments of a direct exchange-builder call
    bOut,              \* result of that call
    bMade,             \* client.make_exchange() calls made by that call
    ps,                \* parameter sets of the remote product system
    puts,              \* number of client.client.put(ps) calls
    call,              \* the last call on the product system and its arguments
    ret,               \* what that call returned or raised
    f,                 \* outputs of the openLCA node
    iter,              \* number of node-script runs so far
    nf_vars,           \* NetlFoqus.vars
    dv,                \* NetlFoqus.dv
    fs,                \* NetlFoqus.fs
    prommis_node,      \* NetlFoqus.prommis_node
    olca_node,         \* NetlFoqus.olca_node
    edge,              \* NetlFoqus.edge
    heap,              \* the node objects, by identity
    next_id,           \* identity of the next object created
    sessions,          \* number of create_session calls so far
    nf_call            \* the last NetlFoqus method call and what it did

vars == <<pc, nrows, count, row, retries, exchanges, parameters,
          parameters_table, last, saved, raised, ops, bIn, bOut,
          bMade, ps, puts, call, ret, f, iter,
          nf_vars, dv, fs, prommis_node, olca_node, edge, heap, next_id,
          sessions, nf_call>>

cnpVars == <<pc, nrows, count, row, retries, exchanges, parameters,
             parameters_table, last, saved, raised, ops>>
builderVars == <<bIn, bOut, bMade>>
psVars == <<ps, puts, call, ret, f, iter>>
nfVars == <<nf_vars, dv, fs, prommis_node, olca_node, edge, heap, next_id,
            sessions, nf_call>>

----------------------------------------------------------------------------
(* Bounds *)

MaxRows == 2
MaxRetry == 2
MaxIter == 2
MaxObjs == 5
MaxSessions == 2
MaxEdges == 2

----------------------------------------------------------------------------
(* Python values *)

None == [t |-> "None"]
Num(v) == [t |-> "float", v |-> v]
Raise(exc) == [t |-> "raise", exc |-> exc]
PyList(items) == [t |-> "list", items |-> items]

\* the parameter name f"p{count}"
PName(k) == <<"p", k>>

\* Python truth value of a string (here: tuple of its parts)
TruthyStr(s) == s # <<>>

\* Python truth value of a Reference_Product cell
TruthyCell(v) == v \notin {"False", "0", ""}

\* str.lower() on the strings that occur as Category and LCA_Unit
lower(s) ==
    CASE s = "Elementary Flows"   -> "elementary flows"
      [] s = "Product Flows"      -> "product flows"
      [] s = "WASTE FLOWS"        -> "waste flows"
      [] s = "KG"                 -> "kg"
      [] s = "MJ"                 -> "mj"
      [] OTHER                    -> s

\* float(x): TypeError on None
float(x) == IF x.t = "None" THEN Raise("TypeError") ELSE Num(x.v)

----------------------------------------------------------------------------
(* The openLCA database and olca_schema.units, as the builders see them *)

FlowIds == {"u_elem", "u_prod", "u_waste", "u_none"}

\* client.query(olca.Flow, flow_uuid)
query_flow(flow_uuid) ==
    CASE flow_uuid = "u_elem"  ->
             [t |-> "Flow", id |-> "u_elem", flow_type |-> "ELEMENTARY_FLOW",
              ref_flow_property |-> "Mass"]
      [] flow_uuid = "u_prod"  ->
             [t |-> "Flow", id |-> "u_prod", flow_type |-> "PRODUCT_FLOW",
              ref_flow_property |-> "Mass"]
      [] flow_uuid = "u_waste" ->
             [t |-> "Flow", id |-> "u_waste", flow_type |-> "WASTE_FLOW",
              ref_flow_property |-> "Mass"]
      [] OTHER -> None

Units == {"kg", "KG", "MJ", "xx"}

\* o_units.property_ref(unit): the flow property of a unit name, or None
property_ref(unit) ==
    CASE unit = "kg" -> [t |-> "Ref", name |-> "Mass"]
      [] unit = "MJ" -> [t |-> "Ref", name |-> "Energy"]
      [] OTHER -> None

\* o_units.unit_ref(unit): the unit of a unit name, or None
unit_ref(unit) ==
    CASE unit = "kg" -> [t |-> "Ref", name |-> "kg"]
      [] unit = "MJ" -> [t |-> "Ref", name |-> "MJ"]
      [] OTHER -> None

----------------------------------------------------------------------------
(* create_exchange_elementary_flow.py *)

create_exchange_elementary_flow(flow_uuid, unit, amount, amount_formula, is_input) ==
    LET flow == query_flow(flow_uuid)
        fp1 == property_ref(unit)
        flow_property == IF fp1 = None THEN property_ref(lower(unit)) ELSE fp1
        amount2 == IF TruthyStr(amount_formula) THEN None ELSE amount
        u1 == unit_ref(unit)
        exunit == IF u1 = None THEN unit_ref(lower(unit)) ELSE u1
        fl == float(amount2)
    IN  IF flow = None THEN Raise("ValueError")
        ELSE IF flow.flow_type # "ELEMENTARY_FLOW" THEN Raise("ValueError")
        ELSE IF flow_property = None THEN Raise("ValueError")
        ELSE IF fl.t = "raise" THEN fl
        ELSE [t |-> "Exchange", flow |-> flow, flow_property |-> flow_property,
              unit |-> exunit, amount |-> fl, amount_formula |-> amount_formula,
              is_input |-> is_input, default_provider |-> None,
              is_quantitative_reference |-> FALSE]

\* the number of client.make_exchange() calls of create_exchange_elementary_flow:
\* the exchange object is made once the flow and the flow property are found
elementary_make_exchange_calls(flow_uuid, unit) ==
    LET flow == query_flow(flow_uuid)
        fp1 == property_ref(unit)
        flow_property == IF fp1 = None THEN property_ref(lower(unit)) ELSE fp1
    IN  IF flow = None THEN 0
        ELSE IF flow.flow_type # "ELEMENTARY_FLOW" THEN 0
        ELSE IF flow_property = None THEN 0
        ELSE 1

(* create_exchange_pr_wa_flow.py *)

\* the number of client.make_exchange() calls of create_exchange_pr_wa_flow
pr_wa_make_exchange_calls(flow_uuid, unit) ==
    LET flow == query_flow(flow_uuid)
        fp1 == property_ref(unit)
        flow_property == IF fp1 = None THEN property_ref(lower(unit)) ELSE fp1
    IN  IF flow = None THEN 0
        ELSE IF flow.flow_type # "PRODUCT_FLOW" /\ flow.flow_type # "WASTE_FLOW" THEN 0
        ELSE IF flow_property = None THEN 0
        ELSE 1

\* create_exchange_pr_wa_flow without the check of the flow type
create_exchange_pr_wa_flow_any_type(flow_uuid, provider_uuid, amount, amount_formula, unit, is_input) ==
    LET flow == query_flow(flow_uuid)
        fp1 == property_ref(unit)
        flow_property == IF fp1 = None THEN property_ref(lower(unit)) ELSE fp1
        amount2 == IF TruthyStr(amount_formula) THEN None ELSE amount
        u1 == unit_ref(unit)
        exunit == IF u1 = None THEN unit_ref(lower(unit)) ELSE u1
        fl == float(amount2)
    IN  IF flow = None THEN Raise("ValueError")
        ELSE IF flow_property = None THEN Raise("ValueError")
        ELSE IF fl.t = "raise" THEN fl
        ELSE [t |-> "Exchange", flow |-> flow, flow_property |-> flow_property,
              unit |-> exunit, amount |-> fl, amount_formula |-> amount_formula,
              is_input |-> is_input,
              default_provider |-> [t |-> "Ref", type |-> "Process", id |-> provider_uuid],
              is_quantitative_reference |-> FALSE]

create_exchange_pr_wa_flow(flow_uuid, provider_uuid, amount, amount_formula, unit, is_input) ==
    LET flow == query_flow(flow_uuid)
        fp1 == property_ref(unit)
        flow_property == IF fp1 = None THEN property_ref(lower(unit)) ELSE fp1
        amount2 == IF TruthyStr(amount_formula) THEN None ELSE amount
        u1 == unit_ref(unit)
        exunit == IF u1 = None THEN unit_ref(lower(unit)) ELSE u1
        fl == float(amount2)
    IN  IF flow = None THEN Raise("ValueError")
        ELSE IF flow.flow_type # "PRODUCT_FLOW" /\ flow.flow_type # "WASTE_FLOW"
             THEN Raise("ValueError")
        ELSE IF flow_property = None THEN Raise("ValueError")
        ELSE IF fl.t = "raise" THEN fl
        ELSE [t |-> "Exchange", flow |-> flow, flow_property |-> flow_property,
              unit |-> exunit, amount |-> fl, amount_formula |-> amount_formula,
              is_input |-> is_input,
              default_provider |-> [t |-> "Ref", type |-> "Process", id |-> provider_uuid],
              is_quantitative_reference |-> FALSE]

----------------------------------------------------------------------------
(* create_exchange_ref_flow.py *)

\* find_flow_property_for_unit: a flow property of the database whose unit
\* group holds the unit; in_db says whether the open database has one
find_flow_property_for_unit(unit_obj, in_db) ==
    IF unit_obj # None /\ in_db
    THEN [t |-> "FlowProperty", name |-> property_ref(unit_obj.name).name]
    ELSE None

create_exchange_ref_existing_flow(flow_uuid, amount, amount_formula, unit) ==
    LET flow == query_flow(flow_uuid)
        fp1 == property_ref(unit)
        flow_property == IF fp1 = None THEN property_ref(lower(unit)) ELSE fp1
        u1 == unit_ref(unit)
        exunit == IF u1 = None THEN unit_ref(lower(unit)) ELSE u1
    IN  IF flow = None THEN Raise("ValueError")
        ELSE IF flow_property = None THEN Raise("ValueError")
        ELSE [t |-> "Exchange", flow |-> flow, flow_property |-> flow_property,
              unit |-> exunit, amount |-> amount, amount_formula |-> amount_formula,
              is_input |-> FALSE, default_provider |-> None,
              is_quantitative_reference |-> TRUE]

create_exchange_ref_new_flow(flowName, amount, amount_formula, unit, isInput, isRef, in_db) ==
    LET u1 == unit_ref(unit)
        unit_obj == IF u1 = None THEN unit_ref(lower(unit)) ELSE u1
        flow_property == find_flow_property_for_unit(unit_obj, in_db)
        saved_flow == [t |-> "Flow", id |-> "u_new", flow_type |-> "PRODUCT_FLOW",
                       ref_flow_property |-> flow_property.name]
    IN  IF flow_property = None
        THEN IF unit_obj = None THEN Raise("AttributeError") ELSE Raise("ValueError")
        ELSE [t |-> "Exchange", flow |-> saved_flow,
              flow_property |-> [t |-> "Ref", name |-> flow_property.name],
              unit |-> unit_obj, amount |-> amount, amount_formula |-> amount_formula,
              is_input |-> isInput, default_provider |-> None,
              is_quantitative_reference |-> isRef]

\* choice is the user's answer to "Enter your choice (1 or 2)", sel the flow
\* the user selects in search_and_select_flows
create_exchange_ref_flow(choice, sel, in_db, flowName, amount, amount_formula, unit, isInput, isRef) ==
    IF choice = "1"
    THEN create_exchange_ref_existing_flow(sel, amount, amount_formula, unit)
    ELSE IF choice = "2"
    THEN create_exchange_ref_new_flow(flowName, amount, amount_formula, unit, isInput, isRef, in_db)
    ELSE Raise("ValueError")

----------------------------------------------------------------------------
(* create_new_process.py *)

Categories == {"elementary flows", "Elementary Flows", "technosphere flows",
               "product flows", "Product Flows", "waste flows", "WASTE FLOWS",
               "resources"}
RefCells == {"False", "True"}
RowFlowIds == {"u_elem", "u_prod", "u_none"}
RowUnits == {"kg", "KG", "xx"}
Amounts == {0, 7}
RowAmounts == {7}
FlowNames == {"Water"}
Providers == {"prov"}
Choices == {"1", "2", "3"}
Responses == {"y", " Yes", "n", "No", "q"}

Rows == [Flow_Name : FlowNames, LCA_Unit : RowUnits, LCA_Amount : RowAmounts,
         Is_Input : {TRUE}, UUID : RowFlowIds, Reference_Product : RefCells,
         Category : Categories]

NoRow == [t |-> "None"]
NoAttempt == [row |-> 0, r |-> NoRow, builder |-> "none", search |-> "none",
              outcome |-> "none", exc |-> "none", resp |-> "none"]
NoProcess == [t |-> "None"]

\* what search_and_select can return: the (flow, provider) the user selects,
\* or 'skip'
SearchResults == {<<"skip", "skip">>} \cup (RowFlowIds \cup {"u_waste"}) \X Providers

\* retry_response.strip().lower(), first character
first_of_stripped_lower(resp) ==
    CASE resp = "y"    -> "y"
      [] resp = " Yes" -> "y"
      [] resp = "n"    -> "n"
      [] resp = "No"   -> "n"
      [] OTHER         -> resp

\* retry_decision with the two answers exchanged
retry_decision_swapped(resp) ==
    IF first_of_stripped_lower(resp) = "n" THEN "continue"
    ELSE IF first_of_stripped_lower(resp) = "y" THEN "break"
    ELSE "loop"

\* the outer except of the row loop: what the answer does to the while loop
retry_decision(resp) ==
    IF first_of_stripped_lower(resp) = "y" THEN "continue"
    ELSE IF first_of_stripped_lower(resp) = "n" THEN "break"
    ELSE "loop"

\* row_branch with the Category looked at before Reference_Product
row_branch_category_first(r) ==
    IF lower(r.Category) = "elementary flows" THEN "elementary"
    ELSE IF TruthyCell(r.Reference_Product) THEN "ref"
    ELSE IF lower(r.Category) = "technosphere flows" \/ lower(r.Category) = "product flows"
         THEN "product"
    ELSE IF lower(r.Category) = "waste flows" THEN "waste"
    ELSE "invalid"

\* the branch of the row loop taken for a row
row_branch(r) ==
    IF TruthyCell(r.Reference_Product) THEN "ref"
    ELSE IF lower(r.Category) = "elementary flows" THEN "elementary"
    ELSE IF lower(r.Category) = "technosphere flows" \/ lower(r.Category) = "product flows"
         THEN "product"
    ELSE IF lower(r.Category) = "waste flows" THEN "waste"
    ELSE "invalid"

\* parameters_table.loc[count-1, ...] = (f"p{count}", product, amount)
table_set(tbl, k, product, amount) ==
    ((k - 1) :> [Parameter_Name |-> PName(k), Parameter_Description |-> product,
                 Parameter_Value |-> amount]) @@ tbl

EmptyTable == [i \in {} |-> 0]

\* create_parameter(f"p{count}", f"Reference parameter for {product}", '',
\* True, ParameterScope("PROCESS_SCOPE"), amount)
create_parameter(name, product, value) ==
    [name |-> name, description |-> <<"Reference parameter for ", product>>,
     formula |-> <<>>, is_input_parameter |-> TRUE,
     parameter_scope |-> "PROCESS_SCOPE", value |-> value]

\* read_dataframe: TypeError unless a path or a DataFrame, ValueError when a
\* required column is missing
read_dataframe(dfkind, cols_ok) ==
    IF dfkind # "str" /\ dfkind # "DataFrame" THEN Raise("TypeError")
    ELSE IF ~cols_ok THEN Raise("ValueError")
    ELSE None

\* one pass through the try block of the row loop for row r at position k;
\* choice, sel, in_db are what the user and the database answer to the
\* reference-flow builder, sr is what search_and_select returns.
\* outcome: "exchange" (appended, break), "caught" (inner except, break),
\* "skip" (break), "raise" (the exception reaches the outer except)
attempt_row(r, k, choice, sel, in_db, sr) ==
    LET product == r.Flow_Name
        unit == r.LCA_Unit
        amount == Num(r.LCA_Amount)
        is_input == r.Is_Input
        pname == PName(k)
        b == row_branch(r)
        base == [row |-> k, r |-> r, builder |-> "none", search |-> "none",
                 outcome |-> "raise", exc |-> "ValueError", resp |-> "none",
                 exchange |-> None]
        refx == create_exchange_ref_flow(choice, sel, in_db, product, amount,
                                         pname, unit, is_input,
                                         TruthyCell(r.Reference_Product))
        elx == create_exchange_elementary_flow(r.UUID, unit, amount, pname, is_input)
        pwx == create_exchange_pr_wa_flow(sr[1], sr[2], amount, pname, unit, is_input)
        prwa(flow_type_str) ==
            IF sr[1] = "skip"
            THEN [base EXCEPT !.search = flow_type_str, !.outcome = "skip", !.exc = "none"]
            ELSE IF pwx.t = "raise"
            THEN [base EXCEPT !.search = flow_type_str, !.builder = "pr_wa",
                              !.outcome = "caught", !.exc = pwx.exc]
            ELSE [base EXCEPT !.search = flow_type_str, !.builder = "pr_wa",
                              !.outcome = "exchange", !.exc = "none", !.exchange = pwx]
    IN  CASE b = "ref" ->
               IF refx.t = "raise"
               THEN [base EXCEPT !.builder = "ref", !.exc = refx.exc]
               ELSE [base EXCEPT !.builder = "ref", !.outcome = "exchange",
                                 !.exc = "none", !.exchange = refx]
          [] b = "elementary" ->
               IF elx.t = "raise"
               THEN [base EXCEPT !.builder = "elementary", !.outcome = "caught",
                                 !.exc = elx.exc]
               ELSE [base EXCEPT !.builder = "elementary", !.outcome = "exchange",
                                 !.exc = "none", !.exchange = elx]
          [] b = "product" -> prwa("product")
          [] b = "waste" -> prwa("waste")
          [] OTHER -> base

\* leaving the while loop of a row: back to the for loop
Advance == pc' = "for" /\ UNCHANGED <<count, row>>

\* for _, row in df.iterrows(): count += 1 (or the loop ends)
ForRow ==
    /\ pc = "for"
    /\ IF count < nrows
       THEN /\ count' = count + 1
            /\ \E nextRow \in Rows : row' = nextRow
            /\ last' = NoAttempt
            /\ pc' = "attempt"
       ELSE /\ pc' = "save"
            /\ UNCHANGED <<count, row, last>>
    /\ UNCHANGED <<nrows, retries, exchanges, parameters, parameters_table,
                   saved, raised, ops>>
    /\ UNCHANGED <<builderVars, psVars>>
    /\ UNCHANGED nfVars

\* the answers the user and the database can give during one pass for row r
AttemptInputs(r) ==
    LET dflt == [choice |-> "3", sel |-> "u_none", in_db |-> FALSE,
                 sr |-> <<"skip", "skip">>]
    IN  CASE row_branch(r) = "ref" ->
               {[dflt EXCEPT !.choice = c, !.sel = s, !.in_db = d] :
                    c \in Choices, s \in RowFlowIds, d \in BOOLEAN}
          [] row_branch(r) \in {"product", "waste"} ->
               {[dflt EXCEPT !.sr = x] : x \in SearchResults}
          [] OTHER -> {dflt}

\* create_new_process up to the first row: read_dataframe, create_empty_process,
\* create_exchange_database
Start ==
    /\ pc = "start"
    /\ \E dfkind \in {"DataFrame", "list"}, cols_ok \in BOOLEAN :
         LET rd == read_dataframe(dfkind, cols_ok)
         IN  IF rd.t = "raise"
             THEN /\ pc' = "raised"
                  /\ raised' = rd.exc
             ELSE /\ raised' = raised
                  /\ pc' = "for"
    /\ UNCHANGED <<count, row>>
    /\ UNCHANGED <<nrows, retries, exchanges, parameters, parameters_table, last,
                   saved, ops>>
    /\ UNCHANGED <<builderVars, psVars>>
    /\ UNCHANGED nfVars

\* one pass through the try block for the current row
Attempt ==
    /\ pc = "attempt"
    /\ \E inp \in AttemptInputs(row) :
         LET res == attempt_row(row, count, inp.choice, inp.sel, inp.in_db, inp.sr)
         IN  /\ parameters' = Append(parameters,
                     create_parameter(PName(count), row.Flow_Name, Num(row.LCA_Amount)))
             /\ last' = [x \in DOMAIN NoAttempt |-> res[x]]
             /\ IF res.outcome = "exchange"
                THEN /\ exchanges' = Append(exchanges, res.exchange)
                     /\ parameters_table' =
                            table_set(parameters_table, count, row.Flow_Name,
                                      row.LCA_Amount)
                     /\ ops' = IF res.exchange.flow.id = "u_new"
                               THEN Append(ops, "put Flow") ELSE ops
                ELSE UNCHANGED <<exchanges, parameters_table, ops>>
             /\ IF res.outcome = "raise"
                THEN pc' = "prompt" /\ UNCHANGED <<count, row>>
                ELSE Advance
    /\ UNCHANGED <<nrows, retries, saved, raised>>
    /\ UNCHANGED <<builderVars, psVars>>
    /\ UNCHANGED nfVars

\* the outer except: "Do you want to try again? (y/n): "
Prompt ==
    /\ pc = "prompt"
    /\ \E resp \in Responses :
         /\ last' = [last EXCEPT !.resp = resp]
         /\ IF retry_decision(resp) = "break"
            THEN Advance /\ UNCHANGED retries
            ELSE /\ retries < MaxRetry
                 /\ retries' = retries + 1
                 /\ pc' = "attempt"
                 /\ UNCHANGED <<count, row>>
    /\ UNCHANGED <<nrows, exchanges, parameters, parameters_table, saved, raised, ops>>
    /\ UNCHANGED <<builderVars, psVars>>
    /\ UNCHANGED nfVars

\* steps 5 and 6: process.parameters, process.exchanges, client.client.put(process)
Save ==
    /\ pc = "save"
    /\ saved' = [parameters |-> parameters, exchanges |-> exchanges]
    /\ ops' = Append(ops, "put Process")
    /\ pc' = "saved"
    /\ UNCHANGED <<nrows, count, row, retries, exchanges, parameters,
                   parameters_table, last, raised>>
    /\ UNCHANGED <<builderVars, psVars>>
    /\ UNCHANGED nfVars

----------------------------------------------------------------------------
(* run_analysis.py *)

\* Line 138 of run_analysis.py, "if new_param_value = ... .values[0]", is not
\* Python: compiling the module raises SyntaxError, so the module cannot be
\* imported and no function defined in it can be called.
import_run_analysis == Raise("SyntaxError")

SetNames == {"Baseline", "Alt"}
ParamValues == {1, 2}
Descs == {"Water", "Ore"}

\* the product system handed out by create_ps for a process
create_ps(process) == [t |-> "ProductSystem", id |-> "ps", parameter_sets |-> None]

HasRefExchange(process_obj) ==
    \E i \in DOMAIN process_obj.exchanges :
        process_obj.exchanges[i].is_quantitative_reference # FALSE

\* result of a call: raised ("none" or the exception), the parameter sets of
\* the product system afterwards, the number of put(ps) calls, the value returned
create_parameter_set(process_obj, parameter_sets, parameter_set_name, description, is_baseline) ==
    LET fail(exc) == [raised |-> exc, ps |-> parameter_sets, puts |-> 0, ret |-> None]
        context == [t |-> "Ref", id |-> process_obj.id, ref_type |-> "Process"]
        redefs == [i \in DOMAIN process_obj.parameters |->
                     [context |-> context,
                      description |-> process_obj.parameters[i].description,
                      is_protected |-> FALSE,
                      name |-> process_obj.parameters[i].name,
                      value |-> process_obj.parameters[i].value]]
        parameter_set == [name |-> parameter_set_name, description |-> description,
                          is_baseline |-> is_baseline, parameters |-> redefs]
    IN  IF import_run_analysis.t = "raise" THEN fail(import_run_analysis.exc)
        ELSE IF ~HasRefExchange(process_obj) THEN fail("StopIteration")
        ELSE [raised |-> "none",
              ps |-> IF parameter_sets.t = "list"
                     THEN PyList(Append(parameter_sets.items, parameter_set))
                     ELSE PyList(<<parameter_set>>),
              puts |-> 1, ret |-> parameter_set]

\* the function body cannot be compiled (line 138); a call fails with the
\* import of the module
update_parameter(parameter_sets, parameter_set_name, new_parameter_set) ==
    [raised |-> import_run_analysis.exc, ps |-> parameter_sets, puts |-> 0,
     ret |-> None]

\* run_analysis: builds the calculation setup and calls client.client.calculate
run_analysis(parameter_set) ==
    IF import_run_analysis.t = "raise"
    THEN [raised |-> import_run_analysis.exc, ops |-> <<>>]
    ELSE [raised |-> "none", ops |-> <<"calculate">>]

----------------------------------------------------------------------------
(* foqus_class.py: initiate_lca_model after create_new_process has returned *)

initiate_lca_model_tail(process, name, description, is_baseline) ==
    LET product_system == create_ps(process)
        cps == create_parameter_set(process, product_system.parameter_sets,
                                    name, description, is_baseline)
        res == run_analysis(cps.ret)
    IN  IF cps.raised # "none"
        THEN [raised |-> cps.raised, ps |-> cps.ps, puts |-> cps.puts,
              ops |-> <<"create_ps">>]
        ELSE IF res.raised # "none"
        THEN [raised |-> res.raised, ps |-> cps.ps, puts |-> cps.puts,
              ops |-> <<"create_ps", "put ProductSystem">>]
        ELSE [raised |-> "none", ps |-> cps.ps, puts |-> cps.puts,
              ops |-> <<"create_ps", "put ProductSystem">> \o res.ops \o
                      <<"wait_until_ready", "get_total_impacts">>]

InitiateTail ==
    /\ pc = "saved"
    /\ \E is_baseline \in BOOLEAN :
         LET res == initiate_lca_model_tail(
                        [id |-> "proc", parameters |-> saved.parameters,
                         exchanges |-> saved.exchanges],
                        "Baseline", "Baseline parameter set", is_baseline)
         IN  /\ ops' = ops \o res.ops
             /\ ps' = res.ps
             /\ puts' = puts + res.puts
             /\ call' = [fn |-> "initiate_lca_model", is_baseline |-> is_baseline]
             /\ IF res.raised # "none"
                THEN pc' = "raised" /\ raised' = res.raised
                ELSE pc' = "initiated" /\ raised' = raised
    /\ UNCHANGED <<nrows, count, row, retries, exchanges, parameters,
                   parameters_table, last, saved>>
    /\ UNCHANGED <<builderVars, ret, f, iter>>
    /\ UNCHANGED nfVars

----------------------------------------------------------------------------
(* foqus_olca_node_script.py, foqus_node_scripts.py: the openLCA node script *)

\* my_parameters: rows (parameter_name, parameter_description, parameter_value)
ParamTables ==
    {<<>>} \cup
    {<<[parameter_name |-> PName(1), parameter_description |-> "Water",
        parameter_value |-> v1],
       [parameter_name |-> PName(2), parameter_description |-> "Ore",
        parameter_value |-> v2]>> : v1 \in ParamValues, v2 \in ParamValues}

\* the node inputs x
NodeInputs == [Descs -> {None, Num(1), Num(2)}]

\* result.get_total_impacts() of the calculation engine
get_total_impacts ==
    <<[impact_category |-> [name |-> "GWP", ref_unit |-> "kg CO2 eq", id |-> "i1"],
       amount |-> 3],
      [impact_category |-> [name |-> "CED", ref_unit |-> "MJ", id |-> "i2"],
       amount |-> 5]>>

\* generate_total_results.py: extract_impacts
extract_impacts(c) == <<c.name, c.ref_unit, c.id>>

\* generate_total_results.py: one row (amount, name, units, uuid) per impact
generate_total_results(total_impacts) ==
    [i \in DOMAIN total_impacts |->
        [amount |-> total_impacts[i].amount,
         name |-> extract_impacts(total_impacts[i].impact_category)[1],
         units |-> extract_impacts(total_impacts[i].impact_category)[2],
         uuid |-> extract_impacts(total_impacts[i].impact_category)[3]]]

\* the column labels of the data frame generate_total_results returns
TotalImpactsColumns == <<"amount", "name", "units", "uuid">>

\* x: node inputs; my_parameters: the parameters table of the node;
\* lower_cols: its columns are named parameter_name, ... (create_new_process
\* names them Parameter_Name, ...); writes_through: a row handed out by
\* iterrows is a view of the frame (it is a view or a copy, depending on the
\* dtypes of the frame and the pandas version)
olca_node_script(x, my_parameters, lower_cols, writes_through, parameter_sets, outputs) ==
    LET fail(exc, n, o) == [raised |-> exc, ps |-> parameter_sets, puts |-> n,
                            f |-> outputs, ops |-> o]
        newval(r) == IF x[r.parameter_description] # None
                     THEN float(x[r.parameter_description]).v ELSE 0
        params == IF writes_through
                  THEN [i \in DOMAIN my_parameters |->
                          [my_parameters[i] EXCEPT !.parameter_value =
                                                       newval(my_parameters[i])]]
                  ELSE my_parameters
        upd == update_parameter(parameter_sets, "Baseline", params)
        res == run_analysis(upd.ret)
    IN  IF my_parameters # <<>> /\ ~lower_cols THEN fail("KeyError", 0, <<>>)
        ELSE IF upd.raised # "none" THEN fail(upd.raised, upd.puts, <<>>)
        ELSE IF res.raised # "none"
        THEN [raised |-> res.raised, ps |-> upd.ps, puts |-> upd.puts,
              f |-> outputs, ops |-> <<"put ProductSystem">>]
        ELSE \* "for result in total_impacts" walks the column labels of the
             \* frame; result['name'] on a label (a str) raises TypeError
             [raised |-> IF Len(TotalImpactsColumns) > 0 THEN "TypeError" ELSE "none",
              ps |-> upd.ps, puts |-> upd.puts, f |-> outputs,
              ops |-> <<"put ProductSystem">> \o res.ops \o
                      <<"wait_until_ready", "get_total_impacts">>]

----------------------------------------------------------------------------
(* Calls on a product system that already exists *)

Redef(k, d, v) ==
    [context |-> [t |-> "Ref", id |-> "proc", ref_type |-> "Process"],
     description |-> <<"Reference parameter for ", d>>, is_protected |-> FALSE,
     name |-> PName(k), value |-> Num(v)]

MkSet(name, v1, v2) ==
    [name |-> name, description |-> "set", is_baseline |-> (name = "Baseline"),
     parameters |-> <<Redef(1, "Water", v1), Redef(2, "Ore", v2)>>]

InitialParameterSets ==
    {None, PyList(<<>>)}
    \cup {PyList(<<MkSet("Baseline", v1, v2)>>) : v1 \in ParamValues, v2 \in ParamValues}
    \cup {PyList(<<MkSet("Alt", 1, 1), MkSet("Baseline", v1, v2)>>) :
             v1 \in ParamValues, v2 \in ParamValues}

RefExchange == [flow |-> query_flow("u_prod"), amount_formula |-> PName(1),
                is_quantitative_reference |-> TRUE]

Processes ==
    {[id |-> "proc", parameters |-> pr, exchanges |-> ex] :
        pr \in {<<>>} \cup
               {<<create_parameter(PName(1), "Water", Num(v))>> : v \in ParamValues}
               \cup {<<create_parameter(PName(1), "Water", Num(v1)),
                       create_parameter(PName(2), "Ore", Num(v2))>> :
                         v1 \in ParamValues, v2 \in ParamValues},
        ex \in {<<>>, <<RefExchange>>}}

CallUpdateParameter ==
    /\ \E name \in SetNames, tbl \in ParamTables :
         LET r == update_parameter(ps, name, tbl)
         IN  /\ call' = [fn |-> "update_parameter", name |-> name, table |-> tbl,
                         ps_before |-> ps, puts_before |-> puts]
             /\ ret' = [raised |-> r.raised, value |-> r.ret]
             /\ ps' = r.ps
             /\ puts' = puts + r.puts
    /\ UNCHANGED <<f, iter>>
    /\ UNCHANGED <<cnpVars, builderVars>>
    /\ UNCHANGED nfVars

CallCreateParameterSet ==
    /\ \E process \in Processes, name \in SetNames, is_baseline \in BOOLEAN :
         LET r == create_parameter_set(process, ps, name, "set", is_baseline)
         IN  /\ call' = [fn |-> "create_parameter_set", name |-> name,
                         process |-> process, is_baseline |-> is_baseline,
                         ps_before |-> ps, puts_before |-> puts]
             /\ ret' = [raised |-> r.raised, value |-> r.ret]
             /\ ps' = r.ps
             /\ puts' = puts + r.puts
    /\ UNCHANGED <<f, iter>>
    /\ UNCHANGED <<cnpVars, builderVars>>
    /\ UNCHANGED nfVars

\* one optimization iteration runs the node script with the inputs x
RunNodeScript ==
    /\ iter < MaxIter
    /\ \E x \in NodeInputs, tbl \in ParamTables, lower_cols \in BOOLEAN,
          writes_through \in BOOLEAN :
         LET r == olca_node_script(x, tbl, lower_cols, writes_through, ps, f)
         IN  /\ call' = [fn |-> "olca_node_script", x |-> x, table |-> tbl,
                         ps_before |-> ps, puts_before |-> puts]
             /\ ret' = [raised |-> r.raised, value |-> None]
             /\ ps' = r.ps
             /\ puts' = puts + r.puts
             /\ f' = r.f
             /\ ops' = ops \o r.ops
    /\ iter' = iter + 1
    /\ UNCHANGED <<pc, nrows, count, row, retries, exchanges, parameters,
                   parameters_table, last, saved, raised>>
    /\ UNCHANGED builderVars
    /\ UNCHANGED nfVars

----------------------------------------------------------------------------
(* Direct calls of the exchange builders *)

ElementaryArgs ==
    [fn : {"elementary"}, flow_uuid : FlowIds, unit : Units, amount : Amounts,
     amount_formula : {<<>>, PName(1)}, is_input : BOOLEAN]

CallElementary ==
    /\ \E a \in ElementaryArgs :
         /\ bIn' = a
         /\ bOut' = create_exchange_elementary_flow(a.flow_uuid, a.unit, Num(a.amount),
                                                    a.amount_formula, a.is_input)
         /\ bMade' = elementary_make_exchange_calls(a.flow_uuid, a.unit)
    /\ UNCHANGED <<cnpVars, psVars>>
    /\ UNCHANGED nfVars

ProviderIds == {"prov", "prov2"}

PrWaArgs ==
    [fn : {"pr_wa"}, flow_uuid : FlowIds, provider_uuid : ProviderIds, unit : Units,
     amount : Amounts, amount_formula : {<<>>, PName(1)}, is_input : BOOLEAN]

CallPrWa ==
    /\ \E a \in PrWaArgs :
         /\ bIn' = a
         /\ bOut' = create_exchange_pr_wa_flow(a.flow_uuid, a.provider_uuid,
                                               Num(a.amount), a.amount_formula,
                                               a.unit, a.is_input)
         /\ bMade' = pr_wa_make_exchange_calls(a.flow_uuid, a.unit)
    /\ UNCHANGED <<cnpVars, psVars>>
    /\ UNCHANGED nfVars

NoCall == [fn |-> "none"]

\* NetlFoqus.__init__
InitNF ==
    /\ nf_vars = <<>>
    /\ dv = <<>>
    /\ fs = None
    /\ prommis_node = None
    /\ olca_node = None
    /\ edge = None
    /\ heap = EmptyTable
    /\ next_id = 1
    /\ sessions = 0
    /\ nf_call = NoCall

InitOther ==
    /\ InitNF
    /\ bIn = None /\ bOut = None /\ bMade = 0
    /\ ps = None /\ puts = 0 /\ call = NoCall /\ ret = None
    /\ f = EmptyTable /\ iter = 0

Init ==
    /\ pc = "start"
    /\ nrows \in 0..MaxRows
    /\ count = 0
    /\ row = NoRow
    /\ retries = 0
    /\ exchanges = <<>>
    /\ parameters = <<>>
    /\ parameters_table = EmptyTable
    /\ last = NoAttempt
    /\ saved = NoProcess
    /\ raised = "none"
    /\ ops = <<>>
    /\ InitOther

Next == Start \/ ForRow \/ Attempt \/ Prompt \/ Save \/ InitiateTail

Spec == Init /\ [][Next]_vars

InitIdle ==
    /\ pc = "start" /\ nrows = 0 /\ count = 0 /\ row = NoRow /\ retries = 0
    /\ exchanges = <<>> /\ parameters = <<>> /\ parameters_table = EmptyTable
    /\ last = NoAttempt /\ saved = NoProcess /\ raised = "none" /\ ops = <<>>

\* direct calls of the exchange builders
InitBuilders ==
    /\ InitIdle
    /\ InitOther

NextBuilders == CallElementary \/ CallPrWa

SpecBuilders == InitBuilders /\ [][NextBuilders]_vars

\* calls on an existing product system: the parameter-set functions and the
\* node script
InitPS ==
    /\ InitIdle
    /\ InitNF
    /\ bIn = None /\ bOut = None /\ bMade = 0
    /\ ps \in InitialParameterSets
    /\ puts = 0 /\ call = NoCall /\ ret = None
    /\ f = EmptyTable /\ iter = 0

NextPS == CallUpdateParameter \/ CallCreateParameterSet \/ RunNodeScript

SpecPS == InitPS /\ [][NextPS]_vars

\* ---- NetlFoqus (foqus_class.py) ----

Str(s) == [t |-> "str", s |-> s]
Ref(id) == [t |-> "ref", id |-> id]
put(tbl, k, v) == (k :> v) @@ tbl

\* the NetlFoqus object: its attributes and the objects they point to
Self ==
    [vars |-> nf_vars, dv |-> dv, fs |-> fs, prommis_node |-> prommis_node,
     olca_node |-> olca_node, edge |-> edge, heap |-> heap,
     next_id |-> next_id]

\* names of the Var components of the UKy flowsheet model
UkyVars == <<Str("a"), Str("b")>>

get_uky_vars_exchanges == UkyVars

\* x in lst, by ==: a str equals a str of the same text, an object without
\* __eq__ equals only itself
py_in(x, lst) == \E i \in 1..Len(lst) : lst[i] = x

dv_names(self) ==
    [i \in 1..Len(self.dv) |-> self.heap[self.dv[i].id].ipvname]

ndv(self) == SelectSeq(self.vars, LAMBDA x : ~py_in(x, self.dv))

has_session(self) == self.fs # None

isinstance_Node(self, x) == x.t = "ref" /\ self.heap[x.id].t = "Node"

add_decision_variable_twice(self, var_name) ==
    IF ~py_in(var_name, self.vars)
    THEN [self |-> self, out |-> Raise("ValueError")]
    ELSE LET id == self.next_id
             h1 == put(self.heap, id, [t |-> "NodeVars", ipvname |-> var_name])
             h2 == IF self.prommis_node # None
                   THEN [h1 EXCEPT ![self.prommis_node.id].inVars =
                                       put(@, var_name, id)]
                   ELSE h1
         IN [self |-> [self EXCEPT !.dv = Append(@, Ref(id)),
                                   !.heap = h2,
                                   !.next_id = id + 1],
             out |-> None]

add_decision_variable(self, var_name) ==
    IF ~py_in(var_name, self.vars)
    THEN [self |-> self, out |-> Raise("ValueError")]
    ELSE IF py_in(var_name, dv_names(self))
    THEN [self |-> self, out |-> None]
    ELSE LET id == self.next_id
             h1 == put(self.heap, id, [t |-> "NodeVars", ipvname |-> var_name])
             h2 == IF self.prommis_node # None
                   THEN [h1 EXCEPT ![self.prommis_node.id].inVars =
                                       put(@, var_name, id)]
                   ELSE h1
         IN [self |-> [self EXCEPT !.dv = Append(@, Ref(id)),
                                   !.heap = h2,
                                   !.next_id = id + 1],
             out |-> None]

add_edge(self, from_node, to_node) ==
    IF ~has_session(self)
    THEN [self |-> self, out |-> Raise("RuntimeError")]
    ELSE IF ~isinstance_Node(self, from_node)
    THEN [self |-> self, out |-> Raise("TypeError")]
    ELSE IF ~isinstance_Node(self, to_node)
    THEN [self |-> self, out |-> Raise("TypeError")]
    ELSE LET e == [t |-> "Edge", start |-> self.heap[from_node.id].name,
                   end |-> self.heap[to_node.id].name]
         IN [self |-> [self EXCEPT !.fs.edges = Append(@, e)], out |-> e]

add_node(self, node_name) ==
    IF ~has_session(self)
    THEN [self |-> self, out |-> Raise("RuntimeError")]
    ELSE LET id == self.next_id
         IN [self |-> [self EXCEPT
                          !.heap = put(@, id, [t |-> "Node", name |-> node_name,
                                               inVars |-> EmptyTable]),
                          !.next_id = id + 1,
                          !.fs.nodes = put(@, node_name, id)],
             out |-> Ref(id)]

create_session_keeps_fs(self, session_name) ==
    [self |-> self, out |-> None]

create_session(self, session_name) ==
    [self |-> [self EXCEPT !.fs = [t |-> "Graph", name |-> session_name,
                                   nodes |-> EmptyTable, edges |-> <<>>]],
     out |-> None]

init_uky(self) ==
    LET s1 == create_session(self, "UKy REE Flowsheet").self
        r2 == add_node(s1, "ProMMiS")
        s2 == [r2.self EXCEPT !.prommis_node = r2.out]
        r3 == add_node(s2, "openLCA")
        s3 == [r3.self EXCEPT !.olca_node = r3.out]
        r4 == add_edge(s3, s3.prommis_node, s3.olca_node)
        s4 == [r4.self EXCEPT !.edge = r4.out]
    IN IF r2.out.t = "raise" THEN r2
       ELSE IF r3.out.t = "raise" THEN r3
       ELSE IF r4.out.t = "raise" THEN r4
       ELSE [self |-> [s4 EXCEPT !.vars = get_uky_vars_exchanges],
             out |-> [t |-> "ConcreteModel"]]

\* arguments of the calls on the NetlFoqus object
VarNames == {Str("a"), Str("b"), Str("zz")}
NodeNames == {"ProMMiS", "n"}
SessionNames == {"s"}
NotANode == Str("ProMMiS")
NodeArgs ==
    IF fs = None THEN {NotANode}
    ELSE {Ref(fs.nodes[n]) : n \in DOMAIN fs.nodes} \cup {NotANode}

\* the object after a call, and the call with the object it was made on
Becomes(r, c) ==
    /\ r.self.next_id <= MaxObjs + 1
    /\ nf_vars' = r.self.vars
    /\ dv' = r.self.dv
    /\ fs' = r.self.fs
    /\ prommis_node' = r.self.prommis_node
    /\ olca_node' = r.self.olca_node
    /\ edge' = r.self.edge
    /\ heap' = r.self.heap
    /\ next_id' = r.self.next_id
    /\ nf_call' = [fn |-> c.fn, args |-> c.args, out |-> r.out, pre |-> Self]
    /\ UNCHANGED <<cnpVars, builderVars, psVars>>

CallAddDecisionVariable ==
    \E var_name \in VarNames :
        /\ Becomes(add_decision_variable(Self, var_name),
                   [fn |-> "add_decision_variable", args |-> <<var_name>>])
        /\ UNCHANGED sessions

CallAddNode ==
    \E node_name \in NodeNames :
        /\ Becomes(add_node(Self, node_name),
                   [fn |-> "add_node", args |-> <<node_name>>])
        /\ UNCHANGED sessions

CallAddEdge ==
    \E from_node \in NodeArgs, to_node \in NodeArgs :
        /\ fs # None => Len(fs.edges) < MaxEdges
        /\ Becomes(add_edge(Self, from_node, to_node),
                   [fn |-> "add_edge", args |-> <<from_node, to_node>>])
        /\ UNCHANGED sessions

CallCreateSession ==
    \E session_name \in SessionNames :
        /\ sessions < MaxSessions
        /\ Becomes(create_session(Self, session_name),
                   [fn |-> "create_session", args |-> <<session_name>>])
        /\ sessions' = sessions + 1

CallInitUky ==
    /\ sessions < MaxSessions
    /\ Becomes(init_uky(Self), [fn |-> "init_uky", args |-> <<>>])
    /\ sessions' = sessions + 1

\* calls on a new NetlFoqus object
InitNetlFoqus ==
    /\ InitIdle
    /\ InitOther

NextNF ==
    \/ CallAddDecisionVariable
    \/ CallAddNode
    \/ CallAddEdge
    \/ CallCreateSession
    \/ CallInitUky

SpecNF == InitNetlFoqus /\ [][NextNF]_vars

----------------------------------------------------------------------------
(* Properties of create_new_process and initiate_lca_model (Spec) *)

ElementaryNames == {"elementary flows", "Elementary Flows"}
ProductNames == {"technosphere flows", "product flows", "Product Flows"}
WasteNames == {"waste flows", "WASTE FLOWS"}
IsRefRow(r) == r.Reference_Product = "True"

ExchangesOfRow(exs, k) == {i \in DOMAIN exs : exs[i].amount_formula = PName(k)}

\* C1: the exchange attempted for a row is decided by the row alone: a truthy
\* Reference_Product selects the reference-flow builder whatever the Category;
\* otherwise the Category, case-insensitively, selects the elementary builder,
\* the product/waste builder after a 'product' search, or the product/waste
\* builder after a 'waste' search; at most one exchange is appended per row and
\* none when the search is answered with 'skip'.
C1_RowDecidesExchange ==
    /\ last.outcome # "none" =>
         /\ IsRefRow(last.r) => last.builder = "ref" /\ last.search = "none"
         /\ ~IsRefRow(last.r) /\ last.r.Category \in ElementaryNames =>
               last.builder = "elementary" /\ last.search = "none"
         /\ ~IsRefRow(last.r) /\ last.r.Category \in ProductNames =>
               /\ last.search = "product"
               /\ last.builder = IF last.outcome = "skip" THEN "none" ELSE "pr_wa"
         /\ ~IsRefRow(last.r) /\ last.r.Category \in WasteNames =>
               /\ last.search = "waste"
               /\ last.builder = IF last.outcome = "skip" THEN "none" ELSE "pr_wa"
         /\ last.outcome = "skip" => ExchangesOfRow(exchanges, last.row) = {}
    /\ \A k \in 1..nrows : Cardinality(ExchangesOfRow(exchanges, k)) <= 1

\* a reference row whose Category is 'Elementary Flows' got its exchange from
\* the reference-flow builder
C1_Witness ==
    /\ last.builder = "ref"
    /\ last.outcome = "exchange"
    /\ last.r.Category = "Elementary Flows"
    /\ Cardinality(ExchangesOfRow(exchanges, last.row)) = 1

ElementaryRowOk(r) ==
    /\ ~IsRefRow(r)
    /\ r.Category \in ElementaryNames
    /\ r.UUID = "u_elem"
    /\ r.LCA_Unit \in {"kg", "KG"}

HasElementaryExchange(exs, r, k) ==
    \E i \in DOMAIN exs :
        /\ exs[i].flow.id = r.UUID
        /\ exs[i].amount_formula = PName(k)

\* C2: for a non-reference 'elementary flows' row whose UUID names an existing
\* ELEMENTARY_FLOW and whose unit resolves, the process holds an exchange for
\* that flow with amount formula p<k>, and the parameters table holds the row
\* (p<k>, Flow_Name, LCA_Amount); once the row is done and in the saved process.
C2_ElementaryRowGetsExchange ==
    (pc \in {"for", "save", "saved"} /\ last.row = count /\ count >= 1
        /\ ElementaryRowOk(last.r)) =>
       /\ HasElementaryExchange(exchanges, last.r, count)
       /\ (count - 1) \in DOMAIN parameters_table
       /\ parameters_table[count - 1] =
              [Parameter_Name |-> PName(count),
               Parameter_Description |-> last.r.Flow_Name,
               Parameter_Value |-> last.r.LCA_Amount]
       /\ pc = "saved" => HasElementaryExchange(saved.exchanges, last.r, count)

\* C4: a non-reference row whose Category is none of the four names makes
\* create_new_process raise ValueError to its caller.
C4_InvalidCategoryRaises ==
    (last.outcome # "none" /\ ~IsRefRow(last.r)
        /\ last.r.Category \notin ElementaryNames \cup ProductNames \cup WasteNames) =>
       (pc = "raised" /\ raised = "ValueError")

YesAnswers == {"y", " Yes"}
NoAnswers == {"n", "No"}

C5_Answers ==
    /\ (pc = "prompt" /\ last'.resp \in YesAnswers) =>
          (pc' = "attempt" /\ count' = count /\ row' = row)
    /\ (pc = "prompt" /\ last'.resp \in NoAnswers) =>
          (pc' = "for" /\ count' = count /\ exchanges' = exchanges)
    /\ (pc = "for" /\ count < nrows) => (pc' = "attempt" /\ count' = count + 1)
    /\ count' >= count

\* C5 as stated: every error while creating the exchange of a row leads to the
\* 'try again' question; 'y' re-attempts the row, 'n' abandons it without an
\* exchange and goes on with the next row; no row is processed again.
C5_EveryErrorAsks ==
    [][/\ (pc = "attempt" /\ last'.exc # "none") => pc' = "prompt"
       /\ C5_Answers]_vars

\* C5 amended: an error of the reference-flow builder or an invalid Category
\* leads to the 'try again' question; an error of the elementary or
\* product/waste builder abandons the row without asking and without an
\* exchange; 'y' re-attempts the row, 'n' abandons it without an exchange and
\* goes on with the next row; no row is processed again.
C5_OuterErrorsAsk ==
    [][/\ (pc = "attempt" /\ last'.exc # "none" /\ last'.builder \in {"ref", "none"})
             => pc' = "prompt"
       /\ (pc = "attempt" /\ last'.exc # "none"
             /\ last'.builder \in {"elementary", "pr_wa"})
             => (pc' = "for" /\ exchanges' = exchanges)
       /\ C5_Answers]_vars

\* the reference-flow builder failed, the user answered 'y', and the same row
\* is about to be attempted again
C5_Witness ==
    /\ pc = "attempt"
    /\ last.row = count
    /\ last.builder = "ref"
    /\ last.exc # "none"
    /\ last.resp \in YesAnswers

InitiateEnded == pc = "initiated" \/ (pc = "raised" /\ saved # NoProcess)

RemoteOps == SelectSeq(ops, LAMBDA o : o # "put Flow")

\* C9: initiate_lca_model saves the process, creates the product system, puts
\* the parameter set, calls calculate and reads the total impacts after
\* wait_until_ready, in this order.
C9_RemoteOrder ==
    InitiateEnded =>
        RemoteOps = <<"put Process", "create_ps", "put ProductSystem",
                      "calculate", "wait_until_ready", "get_total_impacts">>

----------------------------------------------------------------------------
(* Properties of the exchange builders (SpecBuilders) *)

\* C3: create_exchange_elementary_flow returns an exchange or raises
\* ValueError, and raises ValueError exactly when the flow is missing, is not
\* an ELEMENTARY_FLOW, or the unit has no flow property; for an empty and for a
\* non-empty amount_formula.
C3_ElementaryExchangeOrValueError ==
    (bIn # None /\ bIn.fn = "elementary") =>
       LET bad == \/ bIn.flow_uuid = "u_none"
                  \/ bIn.flow_uuid \in {"u_prod", "u_waste"}
                  \/ bIn.unit \notin {"kg", "KG", "MJ"}
           valueError == bOut.t = "raise" /\ bOut.exc = "ValueError"
       IN  /\ bOut.t = "Exchange" \/ valueError
           /\ valueError <=> bad

----------------------------------------------------------------------------
(* Properties of the parameter-set functions and the node script (SpecPS) *)

HasSet(sets, name) ==
    sets.t = "list" /\ \E i \in DOMAIN sets.items : sets.items[i].name = name

TableValue(tbl, pname) ==
    (CHOOSE i \in DOMAIN tbl : tbl[i].parameter_name = pname) .parameter_value

\* C6: update_parameter sets every parameter of the named set to the table's
\* value for its name, puts the product system exactly once, leaves the other
\* parameter sets unchanged and returns the updated set.
C6_UpdateParameterSyncs ==
    (call.fn = "update_parameter" /\ HasSet(call.ps_before, call.name)
        /\ call.table # <<>>) =>
       /\ ret.raised = "none"
       /\ puts = call.puts_before + 1
       /\ ps.t = "list" /\ DOMAIN ps.items = DOMAIN call.ps_before.items
       /\ \A i \in DOMAIN ps.items :
            IF ps.items[i].name = call.name
            THEN /\ \A j \in DOMAIN ps.items[i].parameters :
                       ps.items[i].parameters[j].value =
                           Num(TableValue(call.table, ps.items[i].parameters[j].name))
                 /\ ret.value = ps.items[i]
            ELSE ps.items[i] = call.ps_before.items[i]

\* C7: after a run of the node script every parameter of the 'Baseline' set
\* has the value of the node input x keyed by its description, 0 when that
\* input is None.
C7_BaselineFollowsInputs ==
    (call.fn = "olca_node_script" /\ HasSet(call.ps_before, "Baseline")) =>
       /\ ps.t = "list"
       /\ \A i \in DOMAIN ps.items :
            ps.items[i].name = "Baseline" =>
               \A j \in DOMAIN ps.items[i].parameters :
                  LET d == ps.items[i].parameters[j].description[2]
                  IN  ps.items[i].parameters[j].value =
                          IF call.x[d] = None THEN Num(0) ELSE call.x[d]

\* C8: after a run of the node script the node output f[<category name>] is
\* the total impact amount of every impact category of the calculation.
C8_OutputsAreTotalImpacts ==
    (call.fn = "olca_node_script" /\ HasSet(call.ps_before, "Baseline")) =>
       \A i \in DOMAIN generate_total_results(get_total_impacts) :
          LET r == generate_total_results(get_total_impacts)[i]
          IN  r.name \in DOMAIN f /\ f[r.name] = r.amount

\* C10: create_parameter_set builds one redefinition per parameter of the
\* process (same name and value, the process as context), appends the new set
\* after the sets the product system had, puts the product system exactly
\* once and returns the new set.
C10_CreateParameterSetAppends ==
    (call.fn = "create_parameter_set" /\ call.process.exchanges # <<>>) =>
       LET before == IF call.ps_before.t = "list" THEN call.ps_before.items ELSE <<>>
       IN  /\ ret.raised = "none"
           /\ puts = call.puts_before + 1
           /\ ps.t = "list" /\ Len(ps.items) = Len(before) + 1
           /\ \A i \in DOMAIN before : ps.items[i] = before[i]
           /\ ret.value = ps.items[Len(ps.items)]
           /\ ret.value.name = call.name
           /\ DOMAIN ret.value.parameters = DOMAIN call.process.parameters
           /\ \A j \in DOMAIN call.process.parameters :
                /\ ret.value.parameters[j].name = call.process.parameters[j].name
                /\ ret.value.parameters[j].value = call.process.parameters[j].value
                /\ ret.value.parameters[j].context.id = call.process.id

----------------------------------------------------------------------------
(* Further properties of the exchange builders (SpecBuilders) *)

\* C11: an exchange returned by create_exchange_pr_wa_flow has a flow of type
\* PRODUCT_FLOW or WASTE_FLOW, the is_input passed in and a Process reference
\* with the given provider_uuid as default provider; for a missing flow or a
\* flow of another type ValueError is raised before an exchange object is made.
C11_PrWaExchangeShape ==
    (bIn # None /\ bIn.fn = "pr_wa") =>
       /\ bOut.t = "Exchange" =>
            /\ bOut.flow.flow_type \in {"PRODUCT_FLOW", "WASTE_FLOW"}
            /\ bOut.is_input = bIn.is_input
            /\ bOut.default_provider =
                   [t |-> "Ref", type |-> "Process", id |-> bIn.provider_uuid]
       /\ bIn.flow_uuid \in {"u_none", "u_elem"} =>
            /\ bOut = Raise("ValueError")
            /\ bMade = 0

\* a waste flow with an empty formula: an input exchange with provider prov2
C11_Witness ==
    /\ bIn # None /\ bIn.fn = "pr_wa"
    /\ bOut.t = "Exchange"
    /\ bOut.flow.flow_type = "WASTE_FLOW"
    /\ bOut.is_input
    /\ bOut.default_provider.id = "prov2"

\* the unit a flow property is measured in
ReferenceUnitOf(flow_property_name) ==
    IF flow_property_name = "Mass" THEN [t |-> "Ref", name |-> "kg"]
    ELSE [t |-> "Ref", name |-> "MJ"]

\* the flow property a unit name belongs to, as given or lower-cased
PropertyOfUnit(unit) ==
    CASE unit \in {"kg", "KG"} -> "Mass"
      [] unit = "MJ" -> "Energy"
      [] OTHER -> "none"

\* C12: when the unit passed to create_exchange_elementary_flow cannot be
\* resolved by name, neither as given nor lower-cased, the returned exchange
\* has the reference unit of the flow.
C12_FallsBackToReferenceUnit ==
    (bIn # None /\ bIn.fn = "elementary" /\ bIn.flow_uuid = "u_elem"
        /\ bIn.amount_formula = <<>> /\ PropertyOfUnit(bIn.unit) = "none") =>
       /\ bOut.t = "Exchange"
       /\ bOut.unit = ReferenceUnitOf(query_flow(bIn.flow_uuid).ref_flow_property)

RightType(a) ==
    \/ a.fn = "elementary" /\ a.flow_uuid = "u_elem"
    \/ a.fn = "pr_wa" /\ a.flow_uuid \in {"u_prod", "u_waste"}

\* C17: the flow property of an exchange built by either builder is the
\* reference flow property of the exchange's own flow; a unit of a flow
\* property the flow does not have raises ValueError.
C17_FlowPropertyOfOwnFlow ==
    (bIn # None /\ bIn.fn \in {"elementary", "pr_wa"}) =>
       /\ bOut.t = "Exchange" =>
             bOut.flow_property.name = bOut.flow.ref_flow_property
       /\ (RightType(bIn) /\ PropertyOfUnit(bIn.unit) # "none"
             /\ PropertyOfUnit(bIn.unit) # query_flow(bIn.flow_uuid).ref_flow_property)
             => bOut = Raise("ValueError")

NoDuplicates(seq) ==
    \A i, j \in 1..Len(seq) : seq[i] = seq[j] => i = j

\* C13: the decision-variable names are pairwise distinct and each is in vars;
\* add_decision_variable with a name that is not in vars raises ValueError and
\* changes nothing, and with a name that already is a decision variable it
\* changes nothing.
C13_DecisionVariablesDistinctInVars ==
    /\ NoDuplicates(dv_names(Self))
    /\ \A i \in 1..Len(dv) : py_in(dv_names(Self)[i], nf_vars)
    /\ (/\ nf_call.fn = "add_decision_variable"
        /\ ~py_in(nf_call.args[1], nf_call.pre.vars)) =>
          nf_call.out = Raise("ValueError") /\ Self = nf_call.pre
    /\ (/\ nf_call.fn = "add_decision_variable"
        /\ py_in(nf_call.args[1], dv_names(nf_call.pre))) =>
          Self = nf_call.pre

C13_Witness ==
    /\ nf_call.fn = "add_decision_variable"
    /\ py_in(nf_call.args[1], dv_names(nf_call.pre))
    /\ Len(dv) = 2
    /\ Self = nf_call.pre

\* C14: whenever prommis_node exists, every decision variable is registered
\* in prommis_node.inVars under its name, as the same object that is in dv.
C14_DecisionVariablesAreNodeInputs ==
    prommis_node # None =>
       \A i \in 1..Len(dv) :
          LET name == heap[dv[i].id].ipvname
              inVars == heap[prommis_node.id].inVars
          IN name \in DOMAIN inVars /\ inVars[name] = dv[i].id

\* C15: ndv is exactly the elements of vars that are not decision variables:
\* it holds no variable whose name is in dv_names, and every other element of
\* vars, so that ndv and the decision variables partition vars.
C15_NdvExcludesDecisionVariables ==
    /\ \A i \in 1..Len(ndv(Self)) : ~py_in(ndv(Self)[i], dv_names(Self))
    /\ \A i \in 1..Len(nf_vars) :
          py_in(nf_vars[i], ndv(Self)) \/ py_in(nf_vars[i], dv_names(Self))
    /\ Len(ndv(Self)) + Len(dv) = Len(nf_vars)

\* C16: without a session add_node and add_edge raise RuntimeError and leave
\* the object unchanged; has_session is true exactly when create_session has
\* been called; with a session add_edge with an argument that is not a node
\* raises TypeError and adds no edge.
C16_SessionAndNodeChecks ==
    /\ has_session(Self) <=> sessions >= 1
    /\ (nf_call.fn \in {"add_node", "add_edge"} /\ nf_call.pre.fs = None) =>
          nf_call.out = Raise("RuntimeError") /\ Self = nf_call.pre
    /\ (/\ nf_call.fn = "add_edge"
        /\ nf_call.pre.fs # None
        /\ \E k \in 1..2 : ~isinstance_Node(nf_call.pre, nf_call.args[k])) =>
          /\ nf_call.out = Raise("TypeError")
          /\ fs.edges = nf_call.pre.fs.edges

C16_Witness ==
    /\ nf_call.fn = "add_edge"
    /\ sessions >= 1
    /\ isinstance_Node(nf_call.pre, nf_call.args[1])
    /\ ~isinstance_Node(nf_call.pre, nf_call.args[2])
    /\ nf_call.out = Raise("TypeError")
    /\ Len(fs.edges) = 1

====
